---- MODULE Spec2Model ----
(***************************************************************************)
(* Model of the event-detection and trade-mirroring pipeline:              *)
(*   WalletMonitor    (src/src/function/func_monitor.py)                   *)
(*   PolymarketTrader (src/src/function/func_copy_trade.py)                *)
(*   get_target_position_size (src/src/utils/utils.py)                     *)
(* Amounts, balances and position sizes are fixed-point numbers counted in *)
(* half units (2 stands for 1.0), so that 0.5 is representable.            *)
(***************************************************************************)
EXTENDS Integers, Sequences, FiniteSets, TLC

VARIABLES
    entry,                  \* which program runs: "follower" or "trader_test"
    mode,                   \* the mode given to the constructors
    match_orders_signature, \* WalletMonitor.match_orders_signature
    target_wallet,          \* WalletMonitor.target_wallet
    running,                \* WalletMonitor.running
    message_count,          \* WalletMonitor.message_count
    ws,                     \* the transport: "none", "open" or "closed"
    lpc,                    \* where WalletMonitor.start is suspended
    last,                   \* what process_message did with the last frame
    tpc,                    \* where execute_trade is suspended
    cur,                    \* the invocation of execute_trade in flight
    res,                    \* the last finished trader invocation
    posted,                 \* orders posted to the venue so far
    calls,                  \* direct calls made by the trader test program
    sess,                   \* what start has done on the current connection
    inbox,                  \* frames the transport holds for the next recv
    waits,                  \* asyncio.sleep(5) of start since its last connect
    hpc,                    \* where monitor_block_height is suspended
    height,                 \* what get_block_height returned last
    address_case,           \* the letter case in which web3 renders addresses
    missing_env,            \* the environment variable that is not set
    bt,                     \* the run of the backtest
    fpc,                    \* where PolymarketFollower.start is
    scan                    \* the run of get_transaction_batches

vars == <<entry, mode, match_orders_signature, target_wallet, running,
          message_count, ws, lpc, last, tpc, cur, res, posted, calls,
          sess, inbox, waits, hpc, height, address_case, missing_env, bt,
          fpc, scan>>

monitorVars == <<running, message_count, ws, lpc, last>>
sessionVars == <<sess, inbox, waits>>
heartbeatVars == <<hpc, height>>
traderVars == <<tpc, cur, res, posted>>
configVars == <<entry, mode, match_orders_signature, target_wallet,
                address_case, missing_env>>
backtestVars == <<bt>>
mainVars == <<fpc, scan>>

----------------------------------------------------------------------------
(* Bounds of the model *)

MaxMessages == 2
MaxCalls == 1
MaxTransfers == 3
MaxBlock == 7
BlocksPerBatch == 2

----------------------------------------------------------------------------
(* Python values: None, int, str and a number in half units *)

PyNone == [t |-> "none", i |-> 0, s |-> ""]
PyInt(n) == [t |-> "int", i |-> n, s |-> ""]
PyStr(x) == [t |-> "str", i |-> 0, s |-> x]
PyNum(h) == [t |-> "num", i |-> h, s |-> ""]

\* Python truthiness, as all([...]) applies it
Truthy(x) ==
    CASE x.t = "none" -> FALSE
      [] x.t = "int" -> x.i # 0
      [] x.t = "num" -> x.i # 0
      [] x.t = "str" -> x.s # ""

\* Python ==: values of different types (an int and a str) are never equal
PyEq(a, b) == a.t = b.t /\ a.i = b.i /\ a.s = b.s

----------------------------------------------------------------------------
(* Text: str.lower and str.startswith on sequences of characters *)

LowerChar(c) ==
    CASE c = "A" -> "a" [] c = "B" -> "b" [] c = "C" -> "c"
      [] c = "D" -> "d" [] c = "E" -> "e" [] c = "F" -> "f"
      [] OTHER -> c

UpperChar(c) ==
    CASE c = "a" -> "A" [] c = "b" -> "B" [] c = "c" -> "C"
      [] c = "d" -> "D" [] c = "e" -> "E" [] c = "f" -> "F"
      [] OTHER -> c

Lower(text) == [k \in DOMAIN text |-> LowerChar(text[k])]

StartsWith(text, prefix) ==
    /\ Len(text) >= Len(prefix)
    /\ SubSeq(text, 1, Len(prefix)) = prefix

HexPrefix == <<"0", "x">>

StripHexPrefix(text) ==
    IF StartsWith(text, HexPrefix) THEN SubSeq(text, 3, Len(text)) ELSE text

----------------------------------------------------------------------------
(* Configuration read from the environment.  A selector is shortened to    *)
(* two hex digits and an address to two hex digits.                        *)

\* the selector of matchOrders in the ABI file
MatchOrdersSelector == <<"a", "b">>

\* values MATCH_ORDERS_SIGNATURE may hold: without and with 0x, in upper
\* case, and the selector of another function
EnvSignatures ==
    { <<"a", "b">>, <<"0", "x", "a", "b">>, <<"0", "x", "A", "B">>,
      <<"0", "x", "b", "a">> }

NormaliseSignature(sig) ==
    IF StartsWith(sig, HexPrefix) THEN sig ELSE HexPrefix \o sig

TEST_WALLET == <<"e", "f">>
TARGET_WALLET == <<"c", "D">>

\* Web3.to_checksum_address: a fixed letter case for each address
ToChecksumAddress(a) ==
    [k \in DOMAIN a |->
        IF k % 2 = 1 THEN UpperChar(LowerChar(a[k])) ELSE LowerChar(a[k])]

SelectWallet(m) ==
    ToChecksumAddress(IF m = "test" THEN TEST_WALLET ELSE TARGET_WALLET)

\* minimum and maximum order of each mode, in half units
TEST_MIN_ORDER == 2
TEST_MAX_ORDER == 200
PROD_MIN_ORDER == 4
PROD_MAX_ORDER == 400

\* the delay of each mode, in seconds
TEST_DELAY == 1
PROD_DELAY == 3

\* the modes a constructor is given: 'test', 'prod', and a text that is
\* neither
Modes == {"test", "prod", "dev"}

min_order == IF mode = "test" THEN TEST_MIN_ORDER ELSE PROD_MIN_ORDER

\* variant: the maximum is taken from the other mode
max_order_OtherMode ==
    IF mode = "test" THEN PROD_MAX_ORDER ELSE TEST_MAX_ORDER

max_order == IF mode = "test" THEN TEST_MAX_ORDER ELSE PROD_MAX_ORDER
delay == IF mode = "test" THEN TEST_DELAY ELSE PROD_DELAY

----------------------------------------------------------------------------
(* Stream frames.  A pending-transaction frame carries the leading text of *)
(* its input (optional 0x and the selector digits) and the ABI-encoded     *)
(* parameters of the call.                                                 *)

CorruptParams ==
    [shape |-> "corrupt", maker |-> <<>>, makerAmount |-> 0, tokenId |-> 0,
     side |-> 0]

\* the bytes of the two wallets, and the fields of a well-formed takerOrder
MakerBytes == {Lower(TEST_WALLET), Lower(TARGET_WALLET)}
MakerAmounts == {0, 60}
TokenIds == {7}
Sides == {0, 1}

OkParams ==
    [shape : {"ok"}, maker : MakerBytes, makerAmount : MakerAmounts,
     tokenId : TokenIds, side : Sides]

InputTexts ==
    { <<>>, <<"0", "x", "a", "b">>, <<"0", "x", "A", "B">>, <<"a", "b">>,
      <<"0", "x", "b", "a">>, <<"0", "x", "a">> }

\* the input texts that carry the selector of matchOrders behind 0x
SelectorTexts == {text \in InputTexts : Lower(text) = HexPrefix \o MatchOrdersSelector}

Messages ==
    [kind : {"tx"}, text : SelectorTexts, params : OkParams \cup {CorruptParams}]
    \cup [kind : {"tx"}, text : InputTexts \ SelectorTexts,
          params : {CorruptParams} \cup
                   {p \in OkParams : p.makerAmount = 60 /\ p.side = 1}]
    \cup [kind : {"badjson", "noenvelope", "nonobject"}, text : {<<>>},
          params : {CorruptParams}]

\* the letter cases in which the decoder may render the bytes of an
\* address: the checksum case, or lower case
AddressCases == {"checksum", "lower"}

\* the text decode_function_input gives for the bytes of an address: the
\* same text for the same bytes throughout a run
RenderAddress(bytes) ==
    IF address_case = "checksum" THEN ToChecksumAddress(bytes) ELSE bytes

----------------------------------------------------------------------------
(* WalletMonitor.decode_match_orders *)

\* contract.decode_function_input: the selector of the data (0x optional,
\* any letter case) is the one of matchOrders and the parameters decode
DecodeFunctionInput(input) ==
    /\ Lower(StripHexPrefix(input.text)) = MatchOrdersSelector
    /\ input.params.shape = "ok"

\* how a call ends: it returns ret, or an exception leaves it
Returns(ret) == [raised |-> FALSE, ret |-> ret]
Raises == [raised |-> TRUE, ret |-> <<>>]

\* the dict decode_match_orders builds from the decoded takerOrder
TakerOrderFields(input) ==
    [maker |-> RenderAddress(input.params.maker),
     makerAmount |-> PyInt(input.params.makerAmount),
     tokenId |-> PyInt(input.params.tokenId),
     side |-> PyInt(input.params.side)]

\* variant: a failed decode yields an event of zeroes instead of None
decode_match_orders_ZeroEvent(input) ==
    IF DecodeFunctionInput(input)
    THEN Returns(<< TakerOrderFields(input) >>)
    ELSE Returns(<< [maker |-> <<>>, makerAmount |-> PyInt(0),
                     tokenId |-> PyInt(0), side |-> PyInt(0)] >>)

\* variant: the exception of decode_function_input is not caught
decode_match_orders_Unguarded(input) ==
    IF DecodeFunctionInput(input)
    THEN Returns(<< TakerOrderFields(input) >>)
    ELSE Raises

\* variant: the token id depends on how many frames were counted before
decode_match_orders_Counting(input) ==
    IF DecodeFunctionInput(input)
    THEN Returns(<< [TakerOrderFields(input) EXCEPT
                        !.tokenId = PyInt(input.params.tokenId
                                          + message_count)] >>)
    ELSE Returns(<<>>)

\* the try block returns the dict, the except branch None: <<>> stands for
\* None, <<event>> for the dict
decode_match_orders(input) ==
    IF DecodeFunctionInput(input)
    THEN Returns(<< TakerOrderFields(input) >>)
    ELSE Returns(<<>>)

----------------------------------------------------------------------------
(* WalletMonitor.process_message *)

\* variant: the prefix test ignores letter case
IsMatchOrdersCall_AnyCase(input_text) ==
    StartsWith(Lower(input_text), Lower(match_orders_signature))

\* input_data.startswith(self.match_orders_signature)
IsMatchOrdersCall(input_text) == StartsWith(input_text, match_orders_signature)

\* variant: the comparison keeps letter case
IsTargetMaker_CaseSensitive(event) == event.maker = target_wallet

\* variant: the maker is compared with the wallets of both modes
IsTargetMaker_AnyWallet(event) ==
    Lower(event.maker) \in {Lower(TEST_WALLET), Lower(TARGET_WALLET)}

\* decoded_data["maker"].lower() == self.target_wallet.lower()
IsTargetMaker(event) == Lower(event.maker) = Lower(target_wallet)

Handled(msg, matched, ncalls, decoded, cb, log) ==
    [msg |-> msg, matched |-> matched, decode_calls |-> ncalls,
     decoded |-> decoded, callback |-> cb, log |-> log]

process_message(msg) ==
    CASE msg.kind = "badjson" ->
            Handled(msg, FALSE, 0, <<>>, FALSE, <<"error">>)
      [] msg.kind = "nonobject" ->
            Handled(msg, FALSE, 0, <<>>, FALSE, <<"error">>)
      [] msg.kind = "noenvelope" ->
            Handled(msg, FALSE, 0, <<>>, FALSE, <<>>)
      [] msg.kind = "tx" ->
            IF ~IsMatchOrdersCall(msg.text)
            THEN Handled(msg, FALSE, 0, <<>>, FALSE, <<>>)
            ELSE LET call == decode_match_orders(msg)
                     decoded_data == call.ret
                 IN
                 IF call.raised
                 THEN Handled(msg, TRUE, 1, <<>>, FALSE, <<"info", "error">>)
                 ELSE
                 IF decoded_data # <<>> /\ IsTargetMaker(decoded_data[1])
                 THEN Handled(msg, TRUE, 1, decoded_data, TRUE,
                              <<"info", "info">>)
                 ELSE Handled(msg, TRUE, 1, decoded_data, FALSE,
                              IF decoded_data = <<>>
                              THEN <<"info", "debug", "debug">>
                              ELSE <<"info", "debug">>)

----------------------------------------------------------------------------
(* The external services, as one answer per invocation: the free           *)
(* collateral balance (-1: the query fails), the size of the position the  *)
(* account holds in token 7, and whether a request raises.                 *)

Balances == {-1, 100, 2000}
PositionSizes == {0, 100, 2000}
ApiOutcomes == {"ok", "positions_error", "venue_error"}

Envs == [balance : Balances, position : PositionSizes, api : ApiOutcomes]

\* the answers the services can give to this process: without the API key
\* the venue refuses the balance query and the posting of an order
ServiceAnswers ==
    IF missing_env = "CLOB_API_KEY"
    THEN {env \in Envs : env.balance = -1 /\ env.api # "ok"}
    ELSE Envs

\* the rows of the positions endpoint: the asset is the decimal string of
\* the token id
PositionsData(env) ==
    IF env.position > 0
    THEN << [asset |-> PyStr("7"), size |-> env.position] >>
    ELSE <<>>

\* variant: a failed query is answered with the largest order amount
check_cash_balance_FailureAsFunds(env) ==
    IF env.balance < 0 THEN <<PROD_MAX_ORDER>> ELSE <<env.balance>>

\* PolymarketTrader.check_cash_balance: <<>> stands for None
check_cash_balance(env) ==
    IF env.balance < 0 THEN <<>> ELSE <<env.balance>>

\* utils.get_target_position_size: the size of the first row whose asset
\* equals token_id, else 0
get_target_position_size(data, token_id) ==
    LET hits == {k \in DOMAIN data : PyEq(data[k].asset, token_id)} IN
    IF hits = {} THEN 0
    ELSE data[CHOOSE k \in hits : \A j \in hits : k <= j].size

----------------------------------------------------------------------------
(* PolymarketTrader.place_order *)

\* direction == "BUY"
IsBuy(direction) == PyEq(direction, PyStr("BUY"))

\* variant: the comparison is inverted
InsufficientBalance_Inverted(balance, amount) == amount < balance

\* balance < amount
InsufficientBalance(balance, amount) == balance < amount

\* variant: the position is never found insufficient
InsufficientPosition_Never(position_size, amount) == FALSE

\* position_size < amount
InsufficientPosition(position_size, amount) == position_size < amount

Placed(outcome, queries, env) ==
    [outcome |-> outcome, queries |-> queries,
     posted |-> (outcome = "posted"), raised |-> (outcome = "raised"),
     balance |-> IF queries = <<"balance">> THEN env.balance ELSE -1,
     position |-> IF queries = <<"position">> /\ env.api # "positions_error"
                  THEN env.position ELSE -1]

\* create_market_order and post_order
SubmitOrder(queries, env) ==
    IF env.api = "venue_error"
    THEN Placed("raised", queries, env)
    ELSE Placed("posted", queries, env)

place_order(token_id, direction, amount, env) ==
    IF IsBuy(direction)
    THEN LET balance_info == check_cash_balance(env) IN
         IF balance_info = <<>>
         THEN Placed("no_balance_info", <<"balance">>, env)
         ELSE IF InsufficientBalance(balance_info[1], amount)
         THEN Placed("insufficient_balance", <<"balance">>, env)
         ELSE SubmitOrder(<<"balance">>, env)
    ELSE IF env.api = "positions_error"
         THEN Placed("raised", <<"position">>, env)
         ELSE IF InsufficientPosition(
                     get_target_position_size(PositionsData(env), token_id),
                     amount)
         THEN Placed("insufficient_position", <<"position">>, env)
         ELSE SubmitOrder(<<"position">>, env)

----------------------------------------------------------------------------
(* PolymarketTrader.execute_trade, from the end of its delay *)

\* trade_data.get("makerAmount", 0)
MakerAmountOf(trade_data) ==
    IF trade_data.makerAmount.t = "none" THEN PyInt(0)
    ELSE trade_data.makerAmount

\* Decimal(str(x)) raises for text that is no number
DecimalOk(x) == x.t \in {"int", "num"}

\* Decimal(str(x)) in half units: an int counts whole units
ToDecimal(x) == IF x.t = "int" THEN 2 * x.i ELSE x.i

\* all([token_id, side, makerAmount])
ValidTradeParameters(token_id, side, makerAmount) ==
    Truthy(token_id) /\ Truthy(side) /\ makerAmount # 0

Min2(a, b) == IF a <= b THEN a ELSE b
Max2(a, b) == IF a >= b THEN a ELSE b

\* variant: min and max are exchanged
ApplySizeLimits_Swapped(makerAmount) ==
    Max2(Min2(makerAmount, min_order), max_order)

\* min(max(makerAmount, min_order), max_order)
ApplySizeLimits(makerAmount) == Min2(Max2(makerAmount, min_order), max_order)

Executed(origin, data, validated, placed, direction, amount, p) ==
    [origin |-> origin, escaped |-> (origin = "place_order" /\ p.raised), data |-> data, validated |-> validated,
     placed |-> placed, direction |-> direction, amount |-> amount,
     outcome |-> p.outcome, queries |-> p.queries, posted |-> p.posted,
     raised |-> p.raised, balance |-> p.balance, position |-> p.position]

NotPlaced(outcome) ==
    [outcome |-> outcome, queries |-> <<>>, posted |-> FALSE,
     raised |-> FALSE, balance |-> -1, position |-> -1]

execute_trade(origin, trade_data, env) ==
    LET token_id == trade_data.tokenId
        side == trade_data.side
        raw == MakerAmountOf(trade_data)
    IN  IF ~DecimalOk(raw)
        THEN Executed(origin, trade_data, FALSE, FALSE, PyNone, 0,
                      NotPlaced("error"))
        ELSE IF ~ValidTradeParameters(token_id, side, ToDecimal(raw))
        THEN Executed(origin, trade_data, FALSE, FALSE, PyNone, 0,
                      NotPlaced("invalid"))
        ELSE LET makerAmount == ApplySizeLimits(ToDecimal(raw))
                 p == place_order(token_id, side, makerAmount, env)
             IN  Executed(origin, trade_data, TRUE, TRUE, side, makerAmount,
                          [p EXCEPT !.outcome =
                               IF p.raised THEN "error" ELSE p.outcome])

----------------------------------------------------------------------------
(* The backtest: the transfers the explorer returns for the wallet, and    *)
(* the transaction each of them belongs to.  A transfer is named by its    *)
(* hash; values are whole units of the collateral token.                   *)

Absent == <<>>
Present(x) == <<x>>

\* POLYMARKET_CONTRACTS, by name
CONDITIONAL_TOKENS == "CONDITIONAL_TOKENS"
RELAY_HUB == "RELAY_HUB"
FEE_MODULE == "FEE_MODULE"

\* the literal _decode_single_transaction compares the input with
DecodeLiteral == HexPrefix \o MatchOrdersSelector

OtherSelector == <<"b", "a">>

TakerOrder(makerAmount, tokenId, side) ==
    [shape |-> "ok", maker |-> Lower(TARGET_WALLET),
     makerAmount |-> makerAmount, tokenId |-> tokenId, side |-> side]

\* the history the model draws from: two purchases of token 7 for 10 each
\* and its sale for 25, a redemption paid by the token contract, a transfer
\* of a call that is not matchOrders, a purchase of token 8, and a call
\* with the selector whose parameters do not decode
History ==
    << [from |-> "wallet", value |-> 10, to |-> FEE_MODULE,
        input |-> DecodeLiteral, params |-> TakerOrder(11, 7, 0)],
       [from |-> "wallet", value |-> 10, to |-> FEE_MODULE,
        input |-> DecodeLiteral, params |-> TakerOrder(12, 7, 0)],
       [from |-> "CTF_EXCHANGE", value |-> 25, to |-> FEE_MODULE,
        input |-> DecodeLiteral, params |-> TakerOrder(20, 7, 1)],
       [from |-> CONDITIONAL_TOKENS, value |-> 5, to |-> CONDITIONAL_TOKENS,
        input |-> HexPrefix \o OtherSelector, params |-> CorruptParams],
       [from |-> "CTF_EXCHANGE", value |-> 3, to |-> "CTF_EXCHANGE",
        input |-> HexPrefix \o OtherSelector, params |-> CorruptParams],
       [from |-> "wallet", value |-> 6, to |-> FEE_MODULE,
        input |-> DecodeLiteral, params |-> TakerOrder(16, 8, 0)],
       [from |-> "NEG_RISK_ADAPTER", value |-> 4, to |-> FEE_MODULE,
        input |-> DecodeLiteral, params |-> CorruptParams] >>

Hashes == DOMAIN History

\* the transfers of a response, in the order of the response
RECURSIVE InOrder(_)
InOrder(hs) ==
    IF hs = {} THEN <<>>
    ELSE LET h == CHOOSE x \in hs : \A y \in hs : x <= y IN
         <<h>> \o InOrder(hs \ {h})

\* a transfer dict as the explorer returns it; what _process_transfer may
\* add is not there yet
TransferOf(h) ==
    [hash |-> h, from |-> History[h].from, value |-> History[h].value,
     input |-> Absent, interacted_with |-> "NaN", function_name |-> "NaN"]

\* the responses the model draws from
Responses ==
    {hs \in SUBSET Hashes : hs # {} /\ Cardinality(hs) <= MaxTransfers}

----------------------------------------------------------------------------
(* WalletBacktest._process_transfer, run by a worker of the pool *)

\* get_tx_by_hash_web3: the transaction, or None when the node fails
LookupOutcomes == {"found", "failed"}

IsRelay(transfer) == transfer.from = CONDITIONAL_TOKENS

process_transfer(transfer, lookup) ==
    IF ~IsRelay(transfer)
    THEN IF lookup = "found"
         THEN [transfer EXCEPT
                  !.input = Present(History[transfer.hash].input),
                  !.interacted_with = History[transfer.hash].to]
         ELSE transfer
    ELSE [transfer EXCEPT
             !.interacted_with = RELAY_HUB,
             !.function_name = "relayCall"]

----------------------------------------------------------------------------
(* WalletBacktest.decode_transaction_data and the decoding of a row *)

\* the columns decode_transaction_data adds, with their defaults
WithDefaults(transfer) ==
    [hash |-> transfer.hash, from |-> transfer.from,
     value |-> transfer.value, input |-> transfer.input,
     interacted_with |-> transfer.interacted_with,
     function_name |-> transfer.function_name,
     maker |-> <<>>, tokenId |-> PyStr(""), makerAmount |-> PyStr(""),
     side |-> PyInt(1)]

\* decode_input_data_web3: the try block returns the name and the
\* parameters, the prefix test and the except branch None
decode_input_data_web3(h, input_data) ==
    IF ~StartsWith(input_data, match_orders_signature)
    THEN Returns(<<>>)
    ELSE IF History[h].params.shape = "ok"
              /\ Lower(StripHexPrefix(input_data)) = MatchOrdersSelector
    THEN Returns(<< [function_name |-> "matchOrders",
                     parameters |-> History[h].params] >>)
    ELSE Returns(<<>>)

\* the dict _decode_single_transaction returns: <<>> stands for {}
decode_single_transaction(row) ==
    IF row.input # Absent /\ StartsWith(row.input[1], DecodeLiteral)
    THEN LET decoded == decode_input_data_web3(row.hash, row.input[1]).ret
         IN  IF decoded # <<>>
             THEN << [maker |-> RenderAddress(decoded[1].parameters.maker),
                      tokenId |-> PyInt(decoded[1].parameters.tokenId),
                      makerAmount |->
                          PyInt(decoded[1].parameters.makerAmount),
                      side |-> PyInt(decoded[1].parameters.side),
                      function_name |-> decoded[1].function_name] >>
             ELSE <<>>
    ELSE <<>>

\* decode_input_data_web3 is called for the row
DecodeAttempted(row) ==
    row.input # Absent /\ StartsWith(row.input[1], DecodeLiteral)

\* df.at[idx, key] = value for every key of the dict
MergeInto(row, decoded_data) ==
    IF decoded_data = <<>> THEN row
    ELSE [row EXCEPT !.maker = decoded_data[1].maker,
                     !.tokenId = decoded_data[1].tokenId,
                     !.makerAmount = decoded_data[1].makerAmount,
                     !.side = decoded_data[1].side,
                     !.function_name = decoded_data[1].function_name]

----------------------------------------------------------------------------
(* WalletBacktest.calculate_pnl_stats *)

\* the rows dropna(subset=['function_name']) keeps
RECURSIVE DropNa(_)
DropNa(df) ==
    IF df = <<>> THEN <<>>
    ELSE IF Head(df).function_name = "NaN" THEN DropNa(Tail(df))
    ELSE <<Head(df)>> \o DropNa(Tail(df))

\* the frame has a column function_name when a transfer dict or a decoded
\* dict brought the key
HasFunctionName(df) == \E k \in DOMAIN df : df[k].function_name # "NaN"

\* int(row['side']) == 0
IsBuyRow(row) == row.side.t = "int" /\ row.side.i = 0

RECURSIVE TotalCost(_)
TotalCost(group) ==
    IF group = <<>> THEN 0
    ELSE (IF IsBuyRow(Head(group)) THEN Head(group).value ELSE 0)
         + TotalCost(Tail(group))

RECURSIVE TotalProceeds(_)
TotalProceeds(group) ==
    IF group = <<>> THEN 0
    ELSE (IF IsBuyRow(Head(group)) THEN 0 ELSE Head(group).value)
         + TotalProceeds(Tail(group))

\* the rows of one key of df.groupby('tokenId')
RECURSIVE GroupOf(_, _)
GroupOf(df, token_id) ==
    IF df = <<>> THEN <<>>
    ELSE IF Head(df).tokenId = token_id
    THEN <<Head(df)>> \o GroupOf(Tail(df), token_id)
    ELSE GroupOf(Tail(df), token_id)

\* variant: cost minus proceeds
RealizedPnl_CostMinusProceeds(group) ==
    TotalCost(group) - TotalProceeds(group)

\* realized_pnl = total_proceeds - total_cost
RealizedPnl(group) == TotalProceeds(group) - TotalCost(group)

\* stats: one entry for each key of the grouping; win_rate as the pair of
\* winning_tokens and total_tokens
calculate_pnl_stats(df) ==
    LET keys == {df[k].tokenId : k \in DOMAIN df}
        stats == [token_id \in keys |->
                    [realized_pnl |-> RealizedPnl(GroupOf(df, token_id)),
                     total_volume |-> TotalCost(GroupOf(df, token_id))
                                      + TotalProceeds(GroupOf(df, token_id))]]
    IN  [stats |-> stats,
         winning_tokens |->
             Cardinality({t \in keys : stats[t].realized_pnl > 0}),
         total_tokens |-> Cardinality(keys)]

NoStats == calculate_pnl_stats(<<>>)

----------------------------------------------------------------------------
(* The totals of WalletBacktest.process_transactions *)

\* str(x) of a token id
ToStr(x) ==
    IF x.t = "str" THEN x.s
    ELSE CASE x.i = 7 -> "7" [] x.i = 8 -> "8" [] x.i = 9 -> "9"
           [] OTHER -> "?"

\* what get_current_positions may return: the positions endpoint names a
\* token by the decimal string of its id; the empty list also stands for
\* a failed query
PositionLists ==
    SUBSET { [token_id |-> "7", current_value |-> 4],
             [token_id |-> "8", current_value |-> 3],
             [token_id |-> "9", current_value |-> 2] }

\* the column current_value of a row: the value of the position whose
\* token id has the text of the row's, else 0
CurrentValueOf(positions, row) ==
    LET hits == {pos \in positions : pos.token_id = ToStr(row.tokenId)} IN
    IF hits = {} THEN 0 ELSE (CHOOSE pos \in hits : TRUE).current_value

\* total_realized_pnl: the realized_pnl of every entry of stats
RECURSIVE TotalRealizedPnl(_)
TotalRealizedPnl(stats) ==
    IF DOMAIN stats = {} THEN 0
    ELSE LET t == CHOOSE x \in DOMAIN stats : TRUE IN
         stats[t].realized_pnl
         + TotalRealizedPnl([x \in DOMAIN stats \ {t} |-> stats[x]])

\* df.drop_duplicates('tokenId')['current_value'].sum()
RECURSIVE TotalCurrentValue(_, _, _)
TotalCurrentValue(positions, df, seen) ==
    IF df = <<>> THEN 0
    ELSE IF Head(df).tokenId \in seen
    THEN TotalCurrentValue(positions, Tail(df), seen)
    ELSE CurrentValueOf(positions, Head(df))
         + TotalCurrentValue(positions, Tail(df),
                             seen \cup {Head(df).tokenId})

\* total_pnl = total_current_value + total_realized_pnl
total_pnl(positions, df) ==
    TotalRealizedPnl(calculate_pnl_stats(df).stats)
    + TotalCurrentValue(positions, df, {})

\* the backtest before download_transactions is called
NoBacktest ==
    [pc |-> "idle", transfers |-> <<>>, out |-> <<>>, lookups |-> {},
     df |-> <<>>, results |-> <<>>, merged |-> 0,
     decodes |-> {}, kept |-> <<>>, pnl |-> NoStats, positions |-> {},
     total_pnl |-> Absent]

----------------------------------------------------------------------------
(* SmartWalletFinder.get_transaction_batches: blocks are small numbers and *)
(* a batch spans BlocksPerBatch blocks after its first                     *)

\* the block numbers the node and the explorer may answer with; 0 is also
\* what get_block_by_timestamp returns when its query fails
Blocks == 0..MaxBlock

\* min(current_start + blocks_per_batch, current_block)
WindowEnd(current_start, current_block) ==
    Min2(current_start + BlocksPerBatch, current_block)

\* the generator before its first next()
NoScan ==
    [pc |-> "idle", start_block |-> 0, current_block |-> 0,
     current_start |-> 0, windows |-> <<>>]

----------------------------------------------------------------------------
(* Initial state: the objects as constructed, nothing started *)

\* the environment variable that is not set, if any: the selector, the
\* private key of the signer, or the key of the venue's API credentials
MissingEnv == {"none", "MATCH_ORDERS_SIGNATURE", "PK", "CLOB_API_KEY"}

\* func_copy_trade raises ValueError on import unless PK, FUNDER and WS_URL
\* are all set; ApiCreds takes whatever os.getenv returned
TraderBuilt == missing_env # "PK"

\* WalletMonitor.__init__ raises ValueError unless MATCH_ORDERS_SIGNATURE is
\* set; the follower builds its trader first
MonitorBuilt == TraderBuilt /\ missing_env # "MATCH_ORDERS_SIGNATURE"

NoTradeData == [tokenId |-> PyNone, side |-> PyNone, makerAmount |-> PyNone]

NoCall == [origin |-> "none", data |-> NoTradeData]

NoResult ==
    Executed("none", NoTradeData, FALSE, FALSE, PyNone, 0, NotPlaced("none"))

NoMessage ==
    Handled([kind |-> "none", text |-> <<>>, params |-> CorruptParams],
            FALSE, 0, <<>>, FALSE, <<>>)

\* a connection on which nothing has been sent and nothing has arrived:
\* subs counts the subscription requests sent, acks the frames taken as the
\* subscription response, arrived the frames the transport delivered, taken
\* the arrival number of the frame the last recv returned
NoSession == [subs |-> 0, acks |-> 0, arrived |-> 0, taken |-> 0]

Init ==
    /\ entry \in {"follower", "trader_test", "backtest", "main", "search"}
    /\ mode \in Modes
    /\ \E sig \in EnvSignatures \cup {<<>>} :
          /\ entry = "trader_test" => sig = HexPrefix \o MatchOrdersSelector
          /\ match_orders_signature =
                IF sig = <<>> THEN <<>> ELSE NormaliseSignature(sig)
    /\ target_wallet = SelectWallet(mode)
    /\ mode = "dev" =>
          match_orders_signature = HexPrefix \o MatchOrdersSelector
    /\ address_case \in AddressCases
    /\ (entry \in {"trader_test", "backtest", "main", "search"}
        \/ mode = "dev") =>
          address_case = "checksum"
    /\ entry \in {"main", "search"} =>
          /\ mode = "prod"
          /\ match_orders_signature = HexPrefix \o MatchOrdersSelector
    /\ entry = "backtest" =>
          /\ mode = "prod"
          /\ StartsWith(match_orders_signature, DecodeLiteral)
    /\ missing_env \in MissingEnv
    /\ missing_env # "none" =>
          /\ entry = "follower" /\ mode = "prod"
          /\ address_case = "checksum"
          /\ match_orders_signature \in
                {<<>>, NormaliseSignature(MatchOrdersSelector)}
    /\ match_orders_signature = <<>> <=>
          missing_env = "MATCH_ORDERS_SIGNATURE"
    /\ bt = NoBacktest
    /\ fpc = "idle"
    /\ scan = NoScan
    /\ running = FALSE
    /\ message_count = 0
    /\ ws = "none"
    /\ lpc = IF MonitorBuilt THEN "idle" ELSE "failed"
    /\ last = NoMessage
    /\ tpc = IF TraderBuilt THEN "idle" ELSE "failed"
    /\ cur = NoCall
    /\ res = NoResult
    /\ posted = 0
    /\ calls = 0
    /\ sess = NoSession
    /\ inbox = <<>>
    /\ waits = 0
    /\ hpc = "idle"
    /\ height = "unknown"

----------------------------------------------------------------------------
(* WalletMonitor.start and WalletMonitor.stop.  lpc is the await at which  *)
(* start is suspended: "connecting" (websockets.connect), "send" (the send *)
(* of the subscription request), "ack" (the recv of the subscription       *)
(* response), "recv" (the recv of the inner loop), "callback"              *)
(* (process_message awaiting the trade callback), "backoff"                *)
(* (asyncio.sleep(5)), or "done" once the outer loop has ended.            *)

\* self.web3.eth.block_number as get_block_height returns it: a value, or
\* None when the query raised
BlockHeights == {"value", "none"}

\* self.running = True; the block height task is created; the outer loop
\* is entered and websockets.connect awaited, at which the new task runs
\* its first turn
Start ==
    /\ entry = "follower"
    /\ lpc = "idle"
    /\ running' = TRUE
    /\ lpc' = "connecting"
    /\ hpc' = "waiting"
    /\ \E block_height \in BlockHeights : height' = block_height
    /\ UNCHANGED <<message_count, ws, last>>
    /\ UNCHANGED <<sessionVars, traderVars, configVars, backtestVars,
                 mainVars, calls>>

\* websockets.connect succeeds; self.websocket is the new connection and
\* the send of the subscription request is awaited
ConnectOk ==
    /\ lpc = "connecting"
    /\ ws' = "open"
    /\ lpc' = "send"
    /\ sess' = NoSession
    /\ inbox' = <<>>
    /\ UNCHANGED <<running, message_count, last, waits>>
    /\ UNCHANGED <<heartbeatVars, traderVars, configVars, backtestVars,
                 mainVars, calls>>

\* the except branches of start: the connection has been left, the error
\* is logged and asyncio.sleep(5) awaited
EnterBackoff ==
    /\ lpc' = "backoff"
    /\ waits' = waits + 1
    /\ sess' = NoSession
    /\ inbox' = <<>>

\* websockets.connect raises
ConnectFail ==
    /\ lpc = "connecting"
    /\ EnterBackoff
    /\ UNCHANGED <<running, message_count, ws, last>>
    /\ UNCHANGED <<heartbeatVars, traderVars, configVars, backtestVars,
                 mainVars, calls>>

\* variant: the inner loop is entered without taking the subscription
\* response
Subscribe_NoAck ==
    /\ lpc = "send"
    /\ ws = "open"
    /\ sess' = [sess EXCEPT !.subs = @ + 1]
    /\ lpc' = "recv"
    /\ UNCHANGED <<running, message_count, ws, last, inbox, waits>>
    /\ UNCHANGED <<heartbeatVars, traderVars, configVars, backtestVars,
                 mainVars, calls>>

\* websocket.send(subscribe_message) returns; the recv of the subscription
\* response is awaited
Subscribe ==
    /\ lpc = "send"
    /\ ws = "open"
    /\ sess' = [sess EXCEPT !.subs = @ + 1]
    /\ lpc' = "ack"
    /\ UNCHANGED <<running, message_count, ws, last, inbox, waits>>
    /\ UNCHANGED <<heartbeatVars, traderVars, configVars, backtestVars,
                 mainVars, calls>>

\* the frames start can still take from the connection within the bound:
\* the subscription response if it has not been taken, and the frames
\* that may still be counted
FramesAwaited == (1 - sess.acks) + (MaxMessages - message_count)

\* the endpoint delivers one more frame on the open connection
Arrive ==
    /\ entry = "follower"
    /\ ws = "open"
    /\ lpc \in {"ack", "recv", "callback"}
    /\ Len(inbox) < FramesAwaited
    /\ sess' = [sess EXCEPT !.arrived = @ + 1]
    /\ inbox' = Append(inbox, sess.arrived + 1)
    /\ UNCHANGED <<monitorVars, waits>>
    /\ UNCHANGED <<heartbeatVars, traderVars, configVars, backtestVars,
                 mainVars, calls>>

\* websocket.recv() returns the frame that arrived first
RecvFrame == Head(inbox)

\* subscription_response = await websocket.recv() returns; the inner loop
\* tests self.running
AckReceived ==
    /\ lpc = "ack"
    /\ ws = "open"
    /\ inbox # <<>>
    /\ sess' = [sess EXCEPT !.acks = @ + 1, !.taken = RecvFrame]
    /\ IF running
       THEN lpc' = "recv" /\ ws' = ws /\ inbox' = Tail(inbox)
       ELSE lpc' = "done" /\ ws' = "closed" /\ inbox' = <<>>
    /\ UNCHANGED <<running, message_count, last, waits>>
    /\ UNCHANGED <<heartbeatVars, traderVars, configVars, backtestVars,
                 mainVars, calls>>

\* variant: a closed connection is replaced at once, without the sleep
ConnectionClosed_NoBackoff ==
    /\ lpc \in {"send", "ack", "recv"}
    /\ ws \in {"open", "closed"}
    /\ ws' = "closed"
    /\ lpc' = "connecting"
    /\ sess' = NoSession
    /\ inbox' = <<>>
    /\ UNCHANGED <<running, message_count, last, waits>>
    /\ UNCHANGED <<heartbeatVars, traderVars, configVars, backtestVars,
                 mainVars, calls>>

\* a send or a recv raises ConnectionClosed: the transport dropped or was
\* closed
\* variant: the connection is not closed when the block of start is left
ConnectionClosed_LeavesOpen ==
    /\ lpc \in {"send", "ack", "recv"}
    /\ ws \in {"open", "closed"}
    /\ ws' = ws
    /\ EnterBackoff
    /\ UNCHANGED <<running, message_count, last>>
    /\ UNCHANGED <<heartbeatVars, traderVars, configVars, backtestVars,
                 mainVars, calls>>

ConnectionClosed ==
    /\ lpc \in {"send", "ack", "recv"}
    /\ ws \in {"open", "closed"}
    /\ ws' = "closed"
    /\ EnterBackoff
    /\ UNCHANGED <<running, message_count, last>>
    /\ UNCHANGED <<heartbeatVars, traderVars, configVars, backtestVars,
                 mainVars, calls>>

\* variant: the outer loop ends after the first failure
BackoffElapsed_GivesUp ==
    /\ lpc = "backoff"
    /\ lpc' = "done"
    /\ UNCHANGED <<running, message_count, ws, last, sess, inbox, waits>>
    /\ UNCHANGED <<heartbeatVars, traderVars, configVars, backtestVars,
                 mainVars, calls>>

\* the sleep after an exception ends; the outer loop tests self.running
BackoffElapsed ==
    /\ lpc = "backoff"
    /\ IF running
       THEN lpc' = "connecting" /\ waits' = 0
       ELSE lpc' = "done" /\ waits' = waits
    /\ UNCHANGED <<running, message_count, ws, last, sess, inbox>>
    /\ UNCHANGED <<heartbeatVars, traderVars, configVars, backtestVars,
                 mainVars, calls>>

\* the event a matched trade hands to the callback, as execute_trade reads it
TradeDataOf(event) ==
    [tokenId |-> event.tokenId, side |-> event.side,
     makerAmount |-> event.makerAmount]

\* variant: the callback is started as a task of its own and the inner loop
\* goes on to its next recv
AwaitingCallback_Spawned == "recv"

\* await self.on_trade_callback(decoded_data): start stays suspended in
\* process_message until the callback returns
AwaitingCallback == "callback"

\* message = await websocket.recv(); self.message_count += 1;
\* await self.process_message(message), up to the await of the callback,
\* which runs PolymarketFollower.handle_trade and execute_trade up to its
\* asyncio.sleep
Receive ==
    /\ lpc = "recv"
    /\ ws = "open"
    /\ inbox # <<>>
    /\ message_count < MaxMessages
    /\ sess' = [sess EXCEPT !.taken = RecvFrame]
    /\ inbox' = Tail(inbox)
    /\ \E msg \in Messages :
          LET handled == process_message(msg) IN
          /\ message_count' = message_count + 1
          /\ last' = handled
          /\ IF handled.callback
             THEN /\ lpc' = AwaitingCallback
                  /\ tpc' = "sleeping"
                  /\ cur' = [origin |-> "monitor",
                             data |-> TradeDataOf(handled.decoded[1])]
             ELSE /\ lpc' = "recv"
                  /\ UNCHANGED <<tpc, cur>>
    /\ UNCHANGED <<running, ws, res, posted, waits>>
    /\ UNCHANGED <<heartbeatVars, configVars, backtestVars,
                 mainVars, calls>>

\* WalletMonitor.stop
\* variant: stop cancels the callback that start is awaiting
Stop_CancelsExecution ==
    /\ entry = "follower"
    /\ lpc \notin {"idle", "done"}
    /\ running
    /\ running' = FALSE
    /\ ws' = IF ws = "open" THEN "closed" ELSE ws
    /\ inbox' = <<>>
    /\ IF tpc = "sleeping"
       THEN tpc' = "idle" /\ cur' = NoCall /\ lpc' = "done"
       ELSE UNCHANGED <<tpc, cur, lpc>>
    /\ UNCHANGED <<message_count, last, sess, waits, res, posted>>
    /\ UNCHANGED <<heartbeatVars, configVars, backtestVars,
                 mainVars, calls>>

Stop ==
    /\ entry = "follower"
    /\ lpc \notin {"idle", "done"}
    /\ running
    /\ running' = FALSE
    /\ ws' = IF ws = "open" THEN "closed" ELSE ws
    /\ inbox' = <<>>
    /\ UNCHANGED <<message_count, lpc, last, sess, waits>>
    /\ UNCHANGED <<heartbeatVars, traderVars, configVars, backtestVars,
                 mainVars, calls>>

\* variant: the task ends when get_block_height returns None
HeartbeatTick_DiesOnNone ==
    /\ hpc = "waiting"
    /\ IF running
       THEN \E block_height \in BlockHeights :
               /\ height' = block_height
               /\ hpc' = IF block_height = "none" THEN "done" ELSE "waiting"
       ELSE /\ hpc' = "done"
            /\ height' = "unknown"
    /\ UNCHANGED <<monitorVars, sessionVars>>
    /\ UNCHANGED <<traderVars, configVars, backtestVars,
                 mainVars, calls>>

\* one turn of the loop of monitor_block_height: it tests self.running,
\* calls get_block_height, logs the height if there is one and awaits
\* asyncio.sleep(5)
HeartbeatTick ==
    /\ hpc = "waiting"
    /\ IF running
       THEN /\ \E block_height \in BlockHeights : height' = block_height
            /\ hpc' = "waiting"
       ELSE /\ hpc' = "done"
            /\ height' = "unknown"
    /\ UNCHANGED <<monitorVars, sessionVars>>
    /\ UNCHANGED <<traderVars, configVars, backtestVars,
                 mainVars, calls>>

----------------------------------------------------------------------------
(* PolymarketTrader: the rest of execute_trade once its delay has elapsed, *)
(* and the direct calls of the trader test program                         *)

DirectTokenIds == {PyNone, PyInt(7), PyStr("7")}
DirectSides == {PyNone, PyInt(0), PyInt(1), PyStr("BUY"), PyStr("SELL")}
DirectAmounts ==
    {PyNone, PyNum(1), PyNum(120), PyNum(1000), PyStr("x")}

DirectTradeData ==
    [tokenId : DirectTokenIds, side : DirectSides, makerAmount : DirectAmounts]

\* variant: the order is posted a second time
PostedCount_Twice(r) == IF r.posted THEN 2 ELSE 0

PostedCount(r) == IF r.posted THEN 1 ELSE 0

\* variant: an exception of place_order leaves execute_trade and the
\* callback, and reaches the except branch of start
DelayElapsed_ErrorPropagates ==
    /\ tpc = "sleeping"
    /\ \E env \in ServiceAnswers :
          LET r == execute_trade(cur.origin, cur.data, env) IN
          /\ res' = r
          /\ posted' = posted + PostedCount(r)
          /\ IF cur.origin = "monitor"
             THEN IF r.raised
                  THEN lpc' = "backoff" /\ ws' = "closed"
                  ELSE IF running
                       THEN lpc' = "recv" /\ ws' = ws
                       ELSE lpc' = "done" /\ ws' = "closed"
             ELSE UNCHANGED <<lpc, ws>>
    /\ tpc' = "idle"
    /\ cur' = NoCall
    /\ inbox' = IF cur.origin = "monitor" /\ ~running THEN <<>> ELSE inbox
    /\ UNCHANGED <<running, message_count, last, sess, waits>>
    /\ UNCHANGED <<heartbeatVars, configVars, backtestVars,
                 mainVars, calls>>

\* asyncio.sleep(self.delay) returns: validation, size limits, place_order;
\* the callback returns to process_message and the inner loop tests
\* self.running
DelayElapsed ==
    /\ tpc = "sleeping"
    /\ \E env \in ServiceAnswers :
          LET r == execute_trade(cur.origin, cur.data, env) IN
          /\ res' = r
          /\ posted' = posted + PostedCount(r)
    /\ tpc' = "idle"
    /\ cur' = NoCall
    /\ IF cur.origin = "monitor"
       THEN IF running
            THEN lpc' = "recv" /\ ws' = ws
            ELSE lpc' = "done" /\ ws' = "closed"
       ELSE UNCHANGED <<lpc, ws>>
    /\ inbox' = IF cur.origin = "monitor" /\ ~running THEN <<>> ELSE inbox
    /\ UNCHANGED <<running, message_count, last, sess, waits>>
    /\ UNCHANGED <<heartbeatVars, configVars, backtestVars,
                 mainVars, calls>>

\* a caller awaits trader.execute_trade(trade_data)
DirectExecuteTrade ==
    /\ entry = "trader_test"
    /\ tpc = "idle"
    /\ calls < MaxCalls
    /\ \E trade_data \in DirectTradeData :
          cur' = [origin |-> "direct", data |-> trade_data]
    /\ tpc' = "sleeping"
    /\ calls' = calls + 1
    /\ UNCHANGED <<res, posted>>
    /\ UNCHANGED <<monitorVars, sessionVars, heartbeatVars, configVars,
                 backtestVars, mainVars>>

\* a caller awaits trader.place_order(token_id, direction, amount)
DirectPlaceOrder ==
    /\ entry = "trader_test"
    /\ tpc = "idle"
    /\ calls < MaxCalls
    /\ \E token_id \in DirectTokenIds \ {PyNone} :
       \E direction \in DirectSides \ {PyNone} :
       \E amount \in {120} :
       \E env \in ServiceAnswers :
          LET td == [tokenId |-> token_id, side |-> direction,
                     makerAmount |-> PyNum(amount)]
              r == Executed("place_order", td, FALSE, TRUE, direction, amount,
                            place_order(token_id, direction, amount, env))
          IN /\ res' = r
             /\ posted' = posted + PostedCount(r)
    /\ calls' = calls + 1
    /\ UNCHANGED <<tpc, cur>>
    /\ UNCHANGED <<monitorVars, sessionVars, heartbeatVars, configVars,
                 backtestVars, mainVars>>

----------------------------------------------------------------------------
(* The run of the backtest: download_transactions, then                    *)
(* process_transactions                                                    *)

\* the explorer answers; every transfer is submitted to the pool
Download ==
    /\ entry = "backtest"
    /\ bt.pc = "idle"
    /\ \E hs \in Responses :
          bt' = [bt EXCEPT
                    !.pc = "download",
                    !.transfers = [k \in 1..Cardinality(hs) |->
                                      TransferOf(InOrder(hs)[k])]]
    /\ UNCHANGED <<monitorVars, sessionVars, heartbeatVars, traderVars,
                   configVars, mainVars, calls>>

\* a worker returns from _process_transfer for the transfer it was given;
\* as_completed yields its future next
TransferProcessed ==
    /\ bt.pc = "download"
    /\ \E i \in DOMAIN bt.transfers :
       \E lookup \in LookupOutcomes :
          /\ \A k \in DOMAIN bt.out : bt.out[k] # i
          /\ IsRelay(bt.transfers[i]) => lookup = "found"
          /\ bt' = [bt EXCEPT
                       !.transfers[i] = process_transfer(@, lookup),
                       !.out = Append(@, i),
                       !.lookups = IF IsRelay(bt.transfers[i]) THEN @
                                   ELSE @ \cup {bt.transfers[i].hash}]
    /\ UNCHANGED <<monitorVars, sessionVars, heartbeatVars, traderVars,
                   configVars, mainVars, calls>>

\* download_transactions returns the transfers in the order of completion;
\* process_transactions builds the frame, decode_transaction_data adds its
\* columns and submits every row to the pool
BuildFrame ==
    /\ bt.pc = "download"
    /\ Len(bt.out) = Len(bt.transfers)
    /\ bt' = [bt EXCEPT
                 !.pc = "decode",
                 !.df = [k \in DOMAIN bt.out |->
                            WithDefaults(bt.transfers[bt.out[k]])],
                 !.results = [k \in DOMAIN bt.out |-> Absent]]
    /\ UNCHANGED <<monitorVars, sessionVars, heartbeatVars, traderVars,
                   configVars, mainVars, calls>>

\* a worker returns from _decode_single_transaction for the row it was given
RowDecoded ==
    /\ bt.pc = "decode"
    /\ \E idx \in DOMAIN bt.df :
          /\ bt.results[idx] = Absent
          /\ bt' = [bt EXCEPT
                       !.results[idx] =
                           Present(decode_single_transaction(bt.df[idx])),
                       !.decodes = IF DecodeAttempted(bt.df[idx])
                                   THEN @ \cup {bt.df[idx].hash} ELSE @]
    /\ UNCHANGED <<monitorVars, sessionVars, heartbeatVars, traderVars,
                   configVars, mainVars, calls>>

\* variant: the result of a row is written to the row before it
MergeNext_WrongRow ==
    /\ bt.pc = "decode"
    /\ bt.merged < Len(bt.df)
    /\ bt.results[bt.merged + 1] # Absent
    /\ bt' = [bt EXCEPT
                 !.df[IF bt.merged = 0 THEN Len(bt.df) ELSE bt.merged] =
                     MergeInto(@, bt.results[bt.merged + 1][1]),
                 !.merged = @ + 1]
    /\ UNCHANGED <<monitorVars, sessionVars, heartbeatVars, traderVars,
                   configVars, mainVars, calls>>

\* the loop over (idx, future): future.result() of the next row returns and
\* its dict is written to the row idx
MergeNext ==
    /\ bt.pc = "decode"
    /\ bt.merged < Len(bt.df)
    /\ bt.results[bt.merged + 1] # Absent
    /\ bt' = [bt EXCEPT
                 !.df[bt.merged + 1] =
                     MergeInto(@, bt.results[bt.merged + 1][1]),
                 !.merged = @ + 1]
    /\ UNCHANGED <<monitorVars, sessionVars, heartbeatVars, traderVars,
                   configVars, mainVars, calls>>

\* the rest of process_transactions: dropna raises KeyError when the frame
\* has no column function_name; else the statistics are computed from the
\* rows that are kept
Aggregate ==
    /\ bt.pc = "decode"
    /\ bt.merged = Len(bt.df)
    /\ \E positions \in PositionLists :
          bt' = IF HasFunctionName(bt.df)
                THEN [bt EXCEPT
                         !.pc = "done",
                         !.kept = DropNa(bt.df),
                         !.pnl = calculate_pnl_stats(DropNa(bt.df)),
                         !.positions = positions,
                         !.total_pnl =
                             Present(total_pnl(positions, DropNa(bt.df)))]
                ELSE [bt EXCEPT !.pc = "raised"]
    /\ UNCHANGED <<monitorVars, sessionVars, heartbeatVars, traderVars,
                   configVars, mainVars, calls>>

----------------------------------------------------------------------------
(* PolymarketFollower.start and cleanup *)

\* the methods of PolymarketTrader
TraderMethods == {"check_cash_balance", "place_order", "execute_trade", "close"}

\* await self.trader.initialize(): the attribute lookup raises
\* AttributeError when the trader has no such method
InitializeRaises == "initialize" \notin TraderMethods

\* how await self.trader.close() ends in cleanup: client.close() returns,
\* or raises out of start
CloseOutcomes == {"cleaned", "raised"}

\* start up to its first suspension: either the monitor's start is entered
\* (as in Start), or the except branch logs the error and cleanup runs:
\* monitor.stop() clears running and finds no websocket, then trader.close()
FollowerStart ==
    /\ entry = "main"
    /\ fpc = "idle"
    /\ IF InitializeRaises
       THEN /\ \E outcome \in CloseOutcomes : fpc' = outcome
            /\ running' = FALSE
            /\ UNCHANGED <<lpc, hpc, height>>
       ELSE /\ fpc' = "monitoring"
            /\ running' = TRUE
            /\ lpc' = "connecting"
            /\ hpc' = "waiting"
            /\ \E block_height \in BlockHeights : height' = block_height
    /\ UNCHANGED <<message_count, ws, last, scan>>
    /\ UNCHANGED <<sessionVars, traderVars, configVars, backtestVars, calls>>

----------------------------------------------------------------------------
(* The run of get_transaction_batches *)

\* the first next(): the current block and the start block are fetched; a
\* start block of 0 ends the generator
BeginScan ==
    /\ entry = "search"
    /\ scan.pc = "idle"
    /\ \E current_block \in Blocks :
       \E start_block \in Blocks :
          scan' = [scan EXCEPT
                      !.pc = IF start_block = 0 THEN "done" ELSE "loop",
                      !.start_block = start_block,
                      !.current_block = current_block,
                      !.current_start = start_block]
    /\ UNCHANGED <<monitorVars, sessionVars, heartbeatVars, traderVars,
                   configVars, backtestVars, fpc, calls>>

\* one turn of the loop: the window is queried and the next begins behind
\* its end
ScanWindow ==
    /\ scan.pc = "loop"
    /\ scan.current_start < scan.current_block
    /\ LET current_end == WindowEnd(scan.current_start, scan.current_block)
       IN  scan' = [scan EXCEPT
                       !.windows = Append(@, <<scan.current_start,
                                               current_end>>),
                       !.current_start = current_end + 1]
    /\ UNCHANGED <<monitorVars, sessionVars, heartbeatVars, traderVars,
                   configVars, backtestVars, fpc, calls>>

\* the loop condition fails and the generator ends
EndScan ==
    /\ scan.pc = "loop"
    /\ ~(scan.current_start < scan.current_block)
    /\ scan' = [scan EXCEPT !.pc = "done"]
    /\ UNCHANGED <<monitorVars, sessionVars, heartbeatVars, traderVars,
                   configVars, backtestVars, fpc, calls>>

Next ==
    \/ Start
    \/ ConnectOk
    \/ ConnectFail
    \/ Subscribe
    \/ Arrive
    \/ AckReceived
    \/ ConnectionClosed
    \/ BackoffElapsed
    \/ Receive
    \/ Stop
    \/ HeartbeatTick
    \/ DelayElapsed
    \/ DirectExecuteTrade
    \/ DirectPlaceOrder
    \/ Download
    \/ TransferProcessed
    \/ BuildFrame
    \/ RowDecoded
    \/ MergeNext
    \/ Aggregate
    \/ FollowerStart
    \/ BeginScan
    \/ ScanWindow
    \/ EndScan

Spec == Init /\ [][Next]_vars

\* the follower alone, configured with the selector of matchOrders
InitFollower ==
    /\ Init
    /\ missing_env = "none"
    /\ entry = "follower"
    /\ mode = "prod"
    /\ match_orders_signature = HexPrefix \o MatchOrdersSelector

NextFollower ==
    \/ Start
    \/ ConnectOk
    \/ ConnectFail
    \/ Subscribe
    \/ Arrive
    \/ AckReceived
    \/ ConnectionClosed
    \/ BackoffElapsed
    \/ Receive
    \/ Stop
    \/ HeartbeatTick
    \/ DelayElapsed

\* what the event loop and the libraries bring about without the endpoint:
\* websockets.connect returns or raises, a send returns or raises, a recv
\* returns a frame that has arrived, a recv on a closed connection raises,
\* a sleep ends and a ready task runs.  That the endpoint sends a frame on
\* an open connection is not assumed.
Fairness ==
    /\ WF_vars(ConnectOk \/ ConnectFail)
    /\ WF_vars(Subscribe \/ (ConnectionClosed /\ lpc = "send"))
    /\ WF_vars(AckReceived)
    /\ WF_vars(Receive)
    /\ WF_vars(ConnectionClosed /\ ws = "closed")
    /\ WF_vars(BackoffElapsed)
    /\ WF_vars(DelayElapsed)
    /\ WF_vars(HeartbeatTick)

SpecLive == InitFollower /\ [][NextFollower]_vars /\ Fairness

\* the follower assuming no more than that the sleep of start ends
SpecRetry == InitFollower /\ [][NextFollower]_vars /\ WF_vars(BackoffElapsed)

----------------------------------------------------------------------------
(* Properties of the signature filter, the decoder and the attribution *)

\* the step is the receipt and handling of one frame
FrameHandled == message_count' = message_count + 1

\* the text of the frame begins with the configured signature
BeginsWithSignature(msg) ==
    /\ msg.kind = "tx"
    /\ Len(msg.text) >= Len(match_orders_signature)
    /\ \A k \in 1..Len(match_orders_signature) :
          msg.text[k] = match_orders_signature[k]

\* the parameters are corrupt, or the selector is not the one of the ABI
Undecodable(msg) ==
    \/ msg.params.shape = "corrupt"
    \/ Lower(StripHexPrefix(msg.text)) # MatchOrdersSelector

SameUpToCase(a, b) ==
    /\ Len(a) = Len(b)
    /\ \A k \in 1..Len(a) : LowerChar(a[k]) = LowerChar(b[k])

\* C1: a frame whose input does not begin with the configured signature
\* (or that carries no input) never reaches decode_match_orders nor the
\* trade callback.
C1_NoDecodeWithoutSelector ==
    (last.msg.kind # "none" /\ ~BeginsWithSignature(last.msg)) =>
        /\ last.decode_calls = 0
        /\ last.decoded = <<>>
        /\ ~last.callback
        /\ lpc # "callback"
        /\ tpc = "idle"

\* a well-formed call of the watched wallet, written with upper-case hex
\* digits while the signature is configured in lower case, was dropped
C1_Witness ==
    /\ last.msg.kind = "tx"
    /\ last.msg.text = <<"0", "x", "A", "B">>
    /\ match_orders_signature = <<"0", "x", "a", "b">>
    /\ last.msg.params.shape = "ok"
    /\ last.msg.params.maker = Lower(target_wallet)
    /\ last.decode_calls = 0
    /\ message_count > 0

\* C2: when a frame passes the signature filter but its parameters cannot
\* be decoded, the handling step yields no event, does not invoke the
\* callback, and leaves the trader (its orders included) untouched.
C2_FailClosedDecode ==
    [][(FrameHandled /\ BeginsWithSignature(last'.msg)
            /\ Undecodable(last'.msg)) =>
        /\ last'.decode_calls = 1
        /\ last'.decoded = <<>>
        /\ ~last'.callback
        /\ lpc' = "recv"
        /\ UNCHANGED traderVars]_vars

\* a frame with the right selector and corrupt parameters was decoded to
\* nothing
C2_Witness ==
    /\ last.matched
    /\ last.msg.params.shape = "corrupt"
    /\ Lower(StripHexPrefix(last.msg.text)) = MatchOrdersSelector
    /\ last.decode_calls = 1
    /\ last.decoded = <<>>

\* C3: when the maker of a decoded event equals the watched wallet up to
\* letter case, the handling step invokes the trade callback with that
\* event.
C3_CaseInsensitiveAttribution ==
    [][(FrameHandled /\ last'.decoded # <<>>
            /\ SameUpToCase(last'.decoded[1].maker, target_wallet)) =>
        /\ last'.callback
        /\ lpc' = "callback"
        /\ tpc' = "sleeping"
        /\ cur'.origin = "monitor"
        /\ cur'.data.tokenId = last'.decoded[1].tokenId
        /\ cur'.data.side = last'.decoded[1].side
        /\ cur'.data.makerAmount = last'.decoded[1].makerAmount]_vars

\* the callback runs for an event whose maker differs from the watched
\* wallet in letter case
C3_Witness ==
    /\ last.callback
    /\ last.decoded # <<>>
    /\ last.decoded[1].maker # target_wallet
    /\ SameUpToCase(last.decoded[1].maker, target_wallet)
    /\ tpc = "sleeping"
    /\ cur.origin = "monitor"

\* C4: a decoded event whose maker is not the watched wallet is not
\* forwarded: the handling step invokes no callback, submits no order and
\* changes nothing of the monitor or the trader but the message counter.
C4_NonTargetDropped ==
    [][(FrameHandled /\ last'.decoded # <<>>
            /\ ~SameUpToCase(last'.decoded[1].maker, target_wallet)) =>
        /\ ~last'.callback
        /\ UNCHANGED <<running, ws, lpc>>
        /\ UNCHANGED traderVars
        /\ UNCHANGED configVars]_vars

\* a decoded call of another wallet was dropped
C4_Witness ==
    /\ last.matched
    /\ last.decoded # <<>>
    /\ ~SameUpToCase(last.decoded[1].maker, target_wallet)
    /\ ~last.callback
    /\ lpc = "recv"
    /\ message_count > 0

----------------------------------------------------------------------------
(* Properties of the trade mirror *)

\* res is the result of an invocation of execute_trade
Mirrored == res.origin \in {"monitor", "direct"}

\* the amount execute_trade read from its trade data, in half units
IncomingAmount(r) ==
    CASE r.data.makerAmount.t = "int" -> 2 * r.data.makerAmount.i
      [] r.data.makerAmount.t = "num" -> r.data.makerAmount.i
      [] OTHER -> 0

\* C5: the amount execute_trade passes to place_order lies in
\* [min_order, max_order] of the active mode: max_order for an incoming
\* amount above it, min_order for one below it, the incoming amount
\* otherwise (with 1 and 100: 500 becomes 100 and 0.5 becomes 1).
C5_AmountClamped ==
    (Mirrored /\ res.placed) =>
        /\ min_order <= res.amount /\ res.amount <= max_order
        /\ IncomingAmount(res) > max_order => res.amount = max_order
        /\ IncomingAmount(res) < min_order => res.amount = min_order
        /\ (min_order <= IncomingAmount(res)
                /\ IncomingAmount(res) <= max_order) =>
              res.amount = IncomingAmount(res)
        /\ (min_order = 2 /\ max_order = 200) =>
              /\ IncomingAmount(res) = 1000 => res.amount = 200
              /\ IncomingAmount(res) = 1 => res.amount = 2

\* with limits 1 and 100, an incoming amount of 500 went out as 100
C5_Witness ==
    /\ Mirrored /\ res.placed
    /\ min_order = 2 /\ max_order = 200
    /\ IncomingAmount(res) = 1000
    /\ res.amount = 200

\* C6: a BUY whose queried free collateral balance is below the
\* instruction amount creates and posts no order.
C6_BuyNeedsBalance ==
    [][(res' # res /\ res'.placed
            /\ res'.direction \in {PyStr("BUY"), PyInt(0)}
            /\ res'.balance >= 0 /\ res'.balance < res'.amount) =>
        /\ ~res'.posted
        /\ res'.outcome = "insufficient_balance"
        /\ posted' = posted]_vars

\* balance 50, amount 60: no order was posted
C6_Witness ==
    /\ Mirrored /\ res.placed
    /\ res.direction = PyStr("BUY")
    /\ res.balance = 100 /\ res.amount = 120
    /\ res.outcome = "insufficient_balance"
    /\ posted = 0

\* the size of the position the account holds in the token of r
HeldSize(r) ==
    IF r.data.tokenId \in {PyInt(7), PyStr("7")} THEN r.position ELSE 0

\* C7: a SELL mirrored from the watched wallet is posted if and only if
\* the position the account holds in its token is at least the
\* instruction amount (no request failing).
C7_SellIffPosition ==
    (res.origin = "monitor" /\ res.placed /\ res.direction \in {PyStr("SELL"), PyInt(1)}
        /\ res.outcome \in {"posted", "insufficient_position"}) =>
        (res.posted <=> HeldSize(res) >= res.amount)

\* C8: the side of an event of the watched wallet selects the
\* precondition of its mirror: a BUY (0) is checked against the balance
\* and not the position, a SELL (1) against the position and not the
\* balance.
C8_SideSelectsBranch ==
    (res.origin = "monitor" /\ Truthy(res.data.tokenId)
        /\ IncomingAmount(res) # 0) =>
        /\ res.data.side = PyInt(0) => res.queries = <<"balance">>
        /\ res.data.side = PyInt(1) => res.queries = <<"position">>

\* C9: execute_trade rejects trade data at validation exactly when
\* tokenId, side or amount is absent; trade data holding all three, a BUY
\* with side 0 included, passes.  (A zero token id or a zero amount is
\* counted as absent here, so that only the side is at stake.)
C9_RejectsExactlyAbsent ==
    (Mirrored /\ res.outcome # "error") =>
        (res.validated <=>
            /\ Truthy(res.data.tokenId)
            /\ res.data.side # PyNone
            /\ IncomingAmount(res) # 0)

\* C10: while execute_trade of a matched trade waits out its delay, the
\* receive loop can still take the next frame of the open connection.
C10_DelayDoesNotBlockReceive ==
    (tpc = "sleeping" /\ cur.origin = "monitor" /\ running /\ ws = "open"
        /\ inbox # <<>> /\ message_count < MaxMessages) =>
        ENABLED Receive

----------------------------------------------------------------------------
(* Properties of the stream loop, of stop and of the block height task *)

\* C11: on every connection at most one subscription request is sent and
\* at most one frame is taken as the subscription response, and a frame is
\* counted and handled only on a connection on which exactly one request
\* has been sent and exactly one response taken.
C11_SubscribeAndAckFirst ==
    [][/\ sess'.subs <= 1
       /\ sess'.acks <= 1
       /\ FrameHandled => (sess.subs = 1 /\ sess.acks = 1)]_vars

\* the second counted frame is the first one after the response on a new
\* connection
C11_Witness ==
    /\ message_count = 2
    /\ sess.subs = 1 /\ sess.acks = 1
    /\ sess.taken = 2

\* C12: while stop has not been called, every failure of the connection
\* or of the connect is followed by a new connect: from the sleep after a
\* failure start reaches websockets.connect again.
C12_ReconnectsForever ==
    (lpc = "backoff" /\ running) ~> (lpc = "connecting" \/ ~running)

\* a connect after a connection that was closed
C12_Witness ==
    /\ lpc = "connecting"
    /\ running
    /\ ws = "closed"
    /\ message_count > 0

\* the step begins an attempt to connect
AttemptBegins == lpc' = "connecting" /\ lpc # "connecting"

\* C13: every attempt to connect but the first begins after exactly one
\* sleep since the attempt before it, and no second sleep is begun without
\* an attempt in between.
C13_OneBackoffBetweenAttempts ==
    [][/\ waits' <= 1
       /\ (AttemptBegins /\ lpc # "idle") => (waits = 1 /\ lpc = "backoff")]_vars

\* the attempt after a connection failed while streaming
C13_Witness ==
    /\ lpc = "connecting"
    /\ waits = 0
    /\ ws = "closed"
    /\ message_count = 1
    /\ running

\* stop has been called
StopRequested == ~running /\ lpc # "idle"

\* C14: after stop, start and the block height task both end, and once
\* start has ended no connection is opened and no frame is counted.
C14_StopTerminates ==
    /\ StopRequested ~> (lpc = "done" /\ hpc = "done")
    /\ [][lpc = "done" =>
             (lpc' = "done" /\ ws' = ws /\ message_count' = message_count)]_vars

\* the step leaves start suspended in a recv it has just entered
EntersReceive ==
    /\ lpc' \in {"ack", "recv"}
    /\ lpc' # lpc \/ sess'.taken # sess.taken

\* C15: start enters no recv, that of the subscription response included,
\* once stop has been called.
C15_NoReceiveAfterStop == [][EntersReceive => running]_vars

\* the step ends the handling of a frame with an error: the frame is not
\* JSON or not of the expected shape, its input does not decode, or the
\* instruction it led to was rejected or failed
HandlingFailed ==
    \/ /\ FrameHandled
       /\ ~last'.callback
       /\ last'.log # <<>>
       /\ \/ last'.log[Len(last'.log)] = "error"
          \/ last'.matched /\ last'.decoded = <<>>
    \/ /\ tpc = "sleeping" /\ tpc' = "idle"
       /\ cur.origin = "monitor"
       /\ ~res'.posted

\* C16: an error in the handling of one frame or one instruction leaves
\* the connection open and start at the recv of the inner loop, unless stop
\* was called meanwhile.
C16_ErrorsKeepStreaming ==
    [][(HandlingFailed /\ running) =>
          (lpc' = "recv" /\ ws = "open" /\ ws' = "open" /\ sess'.acks = 1
           /\ inbox' = IF FrameHandled THEN Tail(inbox) ELSE inbox)]_vars

\* on one connection an instruction failed with an exception and the frame
\* after it, not JSON, was handled
C16_Witness ==
    /\ message_count = 2
    /\ sess.taken = 3
    /\ res.origin = "monitor" /\ res.raised
    /\ last.msg.kind = "badjson"
    /\ lpc = "recv" /\ ws = "open"

\* create_market_order or post_order raised in the invocation r
SubmissionRaised(r) ==
    r.raised /\ ~(r.queries = <<"position">> /\ r.position = -1)

\* C17: when the creation or the posting of the order raises in
\* execute_trade, the exception reaches the caller of execute_trade.
C17_SubmissionErrorReachesCaller ==
    (Mirrored /\ SubmissionRaised(res)) => res.escaped

\* C18: a frame is taken and handled only when the handling of the frame
\* before it has ended, and it is the frame that arrived next after the
\* one taken before it.
C18_InOrderOneAtATime ==
    [][FrameHandled =>
          /\ lpc = "recv" /\ tpc = "idle" /\ cur = NoCall
          /\ sess'.taken = sess.taken + 1]_vars

\* the second frame of a connection is handled after the callback of the
\* first has returned
C18_Witness ==
    /\ message_count = 2
    /\ sess.taken = 3
    /\ res.origin = "monitor"
    /\ lpc = "callback" /\ tpc = "sleeping"

\* C19: a frame that is not JSON, or is JSON without params.result, is
\* logged and neither decoded nor handed to the callback.
C19_MalformedFrameLogged ==
    last.msg.kind \in {"badjson", "noenvelope"} =>
        (last.log # <<>> /\ last.decode_calls = 0 /\ ~last.callback)

\* the step is a turn of the block height task in which get_block_height
\* failed
HeartbeatFailed ==
    /\ hpc = "waiting"
    /\ running
    /\ height' = "none"
    /\ height' # height

\* C20: a failed block height query changes nothing of start, and the
\* block height task goes on until stop is called.
C20_HeartbeatFailureIsolated ==
    /\ [](running => hpc = "waiting")
    /\ [][HeartbeatFailed =>
             (hpc' = "waiting"
              /\ UNCHANGED <<monitorVars, sessionVars, traderVars>>)]_vars

\* the query failed while start is streaming
C20_Witness ==
    /\ height = "none"
    /\ hpc = "waiting"
    /\ running
    /\ lpc = "recv" /\ ws = "open"
    /\ message_count > 0

----------------------------------------------------------------------------
(* Properties of repeated frames and of stop during a mirror *)

\* the step is the return of an execute_trade the monitor's callback awaits
MirrorReturns == tpc = "sleeping" /\ tpc' = "idle" /\ cur.origin = "monitor"

\* the holdings the invocation r queried cover its amount
Covered(r) ==
    /\ r.placed /\ ~r.raised
    /\ IF r.queries = <<"balance">>
       THEN r.balance >= r.amount
       ELSE HeldSize(r) >= r.amount

\* C21: nothing remembers the frames seen: a frame of the watched wallet
\* that is delivered again is handed to the callback again, and its mirror
\* is submitted again when the holdings cover it.
C21_DuplicateMirroredAgain ==
    [][/\ (FrameHandled /\ last.callback /\ last'.msg = last.msg)
            => last'.callback
       /\ (MirrorReturns /\ res.origin = "monitor" /\ res.data = cur.data
            /\ Covered(res'))
            => res'.posted]_vars

----------------------------------------------------------------------------
(* Properties of the filter and the decoder as functions of their input *)

\* the hex digits of a text: without a leading 0x, in lower case
HexDigits(text) == Lower(StripHexPrefix(text))

\* C24: the filter compares the input with the configured signature
\* without regard to letter case and with an optional leading 0x stripped
\* from either: a pending-transaction frame matches exactly when the digits
\* of its input begin with the digits of the signature.
C24_FilterIgnoresCaseAndPrefix ==
    last.msg.kind = "tx" =>
        (last.matched <=>
            StartsWith(HexDigits(last.msg.text),
                       HexDigits(match_orders_signature)))

\* a value decode_match_orders may return: None or an event
DecoderValue(v) ==
    \/ v = <<>>
    \/ /\ Len(v) = 1
       /\ DOMAIN v[1] = {"maker", "makerAmount", "tokenId", "side"}

\* C25: the decoders never raise to their caller: wherever start is about
\* to take a frame, decode_match_orders returns an event or None for every
\* input, a frame that passed the filter is never handled by the exception
\* branch of process_message, and decode_input_data_web3 returns for the
\* input of every row of the backtest.
C25_DecoderNeverRaises ==
    /\ (lpc = "recv" /\ inbox # <<>>) =>
          \A msg \in Messages :
             LET call == decode_match_orders(msg) IN
             ~call.raised /\ DecoderValue(call.ret)
    /\ last.decode_calls > 0 =>
          (DecoderValue(last.decoded)
           /\ \A k \in DOMAIN last.log : last.log[k] # "error")
    /\ \A k \in DOMAIN bt.df :
          bt.df[k].input # Absent =>
             ~decode_input_data_web3(bt.df[k].hash, bt.df[k].input[1]).raised

\* an input whose parameters do not decode passed the filter and the
\* decoder returned None for it
C25_Witness ==
    /\ last.matched /\ last.decode_calls = 1
    /\ last.msg.params.shape = "corrupt"
    /\ last.decoded = <<>>
    /\ last.log = <<"info", "debug", "debug">>

----------------------------------------------------------------------------
(* Properties of the configuration at startup *)

\* the construction of the monitor or of the trader raised
ConstructionFailed == lpc = "failed" \/ tpc = "failed"

\* C23: when the selector or a credential is not set, the construction of
\* the monitor or of the trader fails, no connection is ever opened and no
\* frame is ever processed.
C23_MissingConfigFailsConstruction ==
    missing_env # "none" =>
        (ConstructionFailed /\ ws = "none" /\ message_count = 0)

----------------------------------------------------------------------------
(* Properties of the backtest *)

\* the sum of the values of the rows of df whose index is in ks
RECURSIVE SumOfValues(_, _)
SumOfValues(df, ks) ==
    IF ks = {} THEN 0
    ELSE LET k == CHOOSE x \in ks : TRUE IN
         df[k].value + SumOfValues(df, ks \ {k})

\* the rows of df with the token id and the side
RowsOf(df, token_id, side) ==
    {k \in DOMAIN df : df[k].tokenId = token_id /\ df[k].side = PyInt(side)}

\* the sum of the SELL values minus the sum of the BUY values of a token id
SellsMinusBuys(df, token_id) ==
    SumOfValues(df, RowsOf(df, token_id, 1))
    - SumOfValues(df, RowsOf(df, token_id, 0))

\* C27: the realized P&L of every token id of the rows the statistics are
\* computed from is the sum of its SELL values minus the sum of its BUY
\* values, and the winning token ids are those whose P&L is positive (two
\* BUYs of 10 and a SELL of 25 give 5, a win).
C27_PnlIsSellsMinusBuys ==
    bt.pc = "done" =>
        LET keys == {bt.kept[k].tokenId : k \in DOMAIN bt.kept} IN
        /\ DOMAIN bt.pnl.stats = keys
        /\ \A t \in keys :
              bt.pnl.stats[t].realized_pnl = SellsMinusBuys(bt.kept, t)
        /\ bt.pnl.winning_tokens =
              Cardinality({t \in keys : SellsMinusBuys(bt.kept, t) > 0})

\* the two purchases of token 7 for 10 and its sale for 25 were decoded:
\* its P&L is 5 and it wins
C27_Witness ==
    /\ bt.pc = "done"
    /\ {bt.kept[k].hash : k \in DOMAIN bt.kept} = {1, 2, 3}
    /\ bt.pnl.stats[PyInt(7)].realized_pnl = 5
    /\ bt.pnl.winning_tokens = 1 /\ bt.pnl.total_tokens = 1

\* the rows of df that carry a decoded trade
DecodedTrades(df) ==
    {k \in DOMAIN df : df[k].function_name = "matchOrders"}

\* C28: the win rate is the number of token ids with a positive P&L over
\* the number of token ids with at least one decoded trade; a row without
\* a decoded trade (paid by the relay, or of another call) counts in
\* neither.
C28_WinRateOverTradedTokens ==
    bt.pc = "done" =>
        LET traded == {bt.df[k].tokenId : k \in DecodedTrades(bt.df)} IN
        /\ bt.pnl.total_tokens = Cardinality(traded)
        /\ bt.pnl.winning_tokens =
              Cardinality({t \in traded : SellsMinusBuys(bt.df, t) > 0})

\* C29: a transfer sent by the token contract is taken as paid through the
\* relay: its transaction is not looked up, its input is not decoded, its
\* counterparty is the relay hub, and its decoded order fields are empty.
C29_RelayRowsStayEmpty ==
    \A k \in DOMAIN bt.df :
        (k <= bt.merged /\ bt.df[k].from = CONDITIONAL_TOKENS) =>
            /\ bt.df[k].hash \notin bt.lookups
            /\ bt.df[k].hash \notin bt.decodes
            /\ bt.df[k].interacted_with = RELAY_HUB
            /\ bt.df[k].maker = <<>>
            /\ bt.df[k].tokenId = PyStr("")
            /\ bt.df[k].makerAmount = PyStr("")
            /\ bt.df[k].side = PyStr("")

\* the row carries what the transaction of its own hash gives
OwnEnrichment(row) ==
    LET tx == History[row.hash] IN
    /\ row.from = tx.from /\ row.value = tx.value
    /\ row.input # Absent =>
          (row.input = Present(tx.input) /\ row.interacted_with = tx.to)
    /\ row.input = Absent => row.interacted_with \in {"NaN", RELAY_HUB}

\* the row carries the order of the transaction of its own hash, or the
\* defaults when that transaction gives none
OwnDecode(row) ==
    LET tx == History[row.hash] IN
    IF row.input # Absent /\ tx.input = DecodeLiteral /\ tx.params.shape = "ok"
    THEN /\ row.function_name = "matchOrders"
         /\ row.tokenId = PyInt(tx.params.tokenId)
         /\ row.makerAmount = PyInt(tx.params.makerAmount)
         /\ row.side = PyInt(tx.params.side)
         /\ Lower(row.maker) = tx.params.maker
    ELSE /\ row.function_name \in {"NaN", "relayCall"}
         /\ row.tokenId = PyStr("") /\ row.makerAmount = PyStr("")
         /\ row.maker = <<>>

\* C30: in whatever order the workers of the two pools finish, every
\* transfer of the response is exactly one row, and every row carries the
\* input and the counterparty of its own transaction and, once merged,
\* the order decoded from that input.
C30_RowsKeepOwnResults ==
    /\ \A j, k \in DOMAIN bt.out : bt.out[j] = bt.out[k] => j = k
    /\ \A i \in DOMAIN bt.transfers : OwnEnrichment(bt.transfers[i])
    /\ bt.pc \in {"decode", "done", "raised"} =>
          /\ Len(bt.df) = Len(bt.transfers)
          /\ \A i \in DOMAIN bt.transfers :
                Cardinality({k \in DOMAIN bt.df :
                                bt.df[k].hash = bt.transfers[i].hash}) = 1
          /\ \A k \in DOMAIN bt.df :
                /\ OwnEnrichment(bt.df[k])
                /\ k <= bt.merged => OwnDecode(bt.df[k])

\* the transfers completed in another order than they were submitted in,
\* the third row was decoded before the second, and the first is merged
C30_Witness ==
    /\ bt.pc = "decode"
    /\ Len(bt.df) = 3
    /\ bt.out[1] > bt.out[2]
    /\ bt.merged = 1
    /\ bt.df[1].function_name = "matchOrders"
    /\ bt.results[2] = Absent /\ bt.results[3] # Absent
    /\ bt.results[3][1] # <<>>

\* the token ids of the decoded trades of df
TradedTokens(df) == {df[k].tokenId : k \in DecodedTrades(df)}

RECURSIVE SumOverTokens(_, _)
SumOverTokens(f, tokens) ==
    IF tokens = {} THEN 0
    ELSE LET t == CHOOSE x \in tokens : TRUE IN
         f[t] + SumOverTokens(f, tokens \ {t})

\* the realized P&L of every traded token id, once, plus the current value
\* of the position in every traded token id, once
ExpectedTotalPnl ==
    LET tokens == TradedTokens(bt.df)
        realized == [t \in tokens |-> SellsMinusBuys(bt.df, t)]
        current == [t \in tokens |->
                      CurrentValueOf(bt.positions, [tokenId |-> t])]
    IN  SumOverTokens(realized, tokens) + SumOverTokens(current, tokens)

\* C31: for every list of transfers, one without decoded trades included,
\* process_transactions yields a total P&L, and it is the sum of the
\* realized P&L of every token id plus the sum of the current value of the
\* position in every token id, each token id counted once.
C31_TotalPnlIsRealizedPlusCurrent ==
    bt.pc \in {"done", "raised"} =>
        bt.total_pnl = Present(ExpectedTotalPnl)

----------------------------------------------------------------------------
(* Properties of the mode *)

\* the wallet and the triple the mode stands for
WalletOfMode == IF mode = "test" THEN TEST_WALLET ELSE TARGET_WALLET
TripleOfMode ==
    IF mode = "test"
    THEN <<TEST_MIN_ORDER, TEST_MAX_ORDER, TEST_DELAY>>
    ELSE <<PROD_MIN_ORDER, PROD_MAX_ORDER, PROD_DELAY>>

\* C32: the mode selects the watched wallet and the triple of minimum,
\* maximum and delay as a whole: in mode 'test' the callback is invoked
\* only for trades of TEST_WALLET and the trader works with the test
\* triple, in any other mode only for trades of TARGET_WALLET and with the
\* production triple; every amount handed to place_order lies within the
\* bounds of that triple.
C32_ModeSelectsWalletAndTriple ==
    /\ Lower(target_wallet) = Lower(WalletOfMode)
    /\ last.callback => Lower(last.decoded[1].maker) = Lower(WalletOfMode)
    /\ <<min_order, max_order, delay>> = TripleOfMode
    /\ (Mirrored /\ res.placed) =>
          (TripleOfMode[1] <= res.amount /\ res.amount <= TripleOfMode[2])

\* in mode 'test' a trade of TEST_WALLET was handed to the callback and
\* its amount, within the test bounds, was handed to place_order
C32_Witness ==
    /\ mode = "test"
    /\ last.callback
    /\ Lower(last.decoded[1].maker) = Lower(TEST_WALLET)
    /\ res.origin = "monitor" /\ res.placed
    /\ res.amount = IncomingAmount(res)

----------------------------------------------------------------------------
(* Properties of the order of the steps of execute_trade *)

\* the step begins an invocation of execute_trade, or passes while one is
\* waiting out its delay
DelayPending ==
    \/ tpc = "idle" /\ tpc' = "sleeping"
    \/ tpc = "sleeping" /\ tpc' = "sleeping"

\* C33: execute_trade waits out the delay, then validates, clamps, queries
\* the precondition, and creates and posts the order: until the delay has
\* elapsed nothing is queried and nothing is posted; trade data rejected at
\* validation leads to no query; and an order is posted only when
\* validation passed and the holdings queried in that invocation cover the
\* clamped amount.
C33_StepsInOrder ==
    /\ [][DelayPending => (res' = res /\ posted' = posted)]_vars
    /\ [](Mirrored =>
            /\ ~res.validated => (res.queries = <<>> /\ ~res.posted)
            /\ res.placed =>
                  (res.validated /\ Len(res.queries) = 1
                   /\ min_order <= res.amount /\ res.amount <= max_order)
            /\ res.posted => (res.validated /\ Covered(res)))

\* an invocation went through all the steps and posted its order
C33_Witness ==
    /\ Mirrored
    /\ res.validated /\ res.placed /\ res.posted
    /\ Covered(res)
    /\ posted = 1
    /\ tpc = "idle"

----------------------------------------------------------------------------
(* Properties of PolymarketFollower.start *)

\* C34: with a valid configuration PolymarketFollower.start starts the
\* stream loop of the monitor before cleanup runs: when cleanup has run,
\* WalletMonitor.start has been entered.
C34_MonitorStartedBeforeCleanup ==
    fpc \in CloseOutcomes => lpc # "idle"

----------------------------------------------------------------------------
(* Properties of the block windows *)

\* the blocks of a window
BlocksOf(w) == w[1]..w[2]

\* C39: for a start block that is not after the current block, the
\* windows of get_transaction_batches are contiguous and disjoint, span at
\* most blocks_per_batch + 1 blocks each, and cover every block from the
\* start block through the current block.
C39_WindowsCoverRange ==
    (scan.pc = "done" /\ 0 < scan.start_block
        /\ scan.start_block <= scan.current_block) =>
        LET wins == scan.windows IN
        /\ \A k \in DOMAIN wins :
              /\ wins[k][1] <= wins[k][2]
              /\ wins[k][2] - wins[k][1] + 1 <= BlocksPerBatch + 1
              /\ k > 1 => wins[k][1] = wins[k - 1][2] + 1
        /\ UNION {BlocksOf(wins[k]) : k \in DOMAIN wins} =
              scan.start_block..scan.current_block

----------------------------------------------------------------------------
(* Properties of the number of callbacks and of posted orders *)

\* the step returns from an invocation of the trader
TraderReturns ==
    \/ tpc = "sleeping" /\ tpc' = "idle"
    \/ calls' = calls + 1 /\ tpc' = tpc

\* C35: a frame leads to at most one invocation of the callback, the
\* callback is invoked for nothing but a frame, and an invocation of the
\* trader posts at most one order.
C35_AtMostOneCallbackOnePost ==
    /\ [][FrameHandled =>
             IF last'.callback
             THEN /\ tpc = "idle" /\ tpc' = "sleeping"
                  /\ cur = NoCall /\ cur'.origin = "monitor"
             ELSE UNCHANGED <<tpc, cur>>]_vars
    /\ [][(cur'.origin = "monitor" /\ cur' # cur) => FrameHandled]_vars
    /\ [][/\ posted' \in {posted, posted + 1}
          /\ posted' # posted => (TraderReturns /\ res'.posted)]_vars

\* a direct call of execute_trade posted its one order
C35_Witness ==
    /\ entry = "trader_test"
    /\ res.origin = "direct" /\ res.posted
    /\ res.queries = <<"balance">>
    /\ posted = 1 /\ calls = 1

----------------------------------------------------------------------------
(* Properties of the connections of the monitor *)

\* the step opens a transport connection
Opens == ws' = "open" /\ lpc = "connecting"

\* the step sends a subscription request
SendsSubscription == sess'.subs = sess.subs + 1

\* C36: once stop has been called, start opens no connection and sends no
\* subscription request, wherever stop found it.
C36_NoConnectAfterStop ==
    [][StopRequested => (~Opens /\ ~SendsSubscription)]_vars

\* start is inside the block of a connection
UsesConnection == lpc \in {"send", "ack", "recv", "callback"}

\* the step is a call of stop
StopCalled == running /\ ~running'

\* C37: the monitor holds at most one open connection: a connection is
\* opened only when the one before it is closed, none is open while start
\* is connecting or in backoff, and the connection stop closes is the one
\* start is using.
C37_OneConnection ==
    /\ [](lpc \in {"connecting", "backoff"} => ws # "open")
    /\ [][Opens => ws # "open"]_vars
    /\ [][StopCalled =>
             IF UsesConnection
             THEN ws = "open" /\ ws' = "closed"
             ELSE ws # "open" /\ ws' = ws]_vars

\* a message was received on a connection that was lost since, and the
\* connection of the next attempt is open with nothing sent on it yet
C37_Witness ==
    /\ ws = "open"
    /\ lpc = "send"
    /\ running
    /\ message_count = 1
    /\ sess = NoSession

----------------------------------------------------------------------------
(* Properties of a purchase whose balance query fails *)

\* the last instruction reached place_order as a BUY and its balance query
\* returned None
BuyWithoutBalanceInfo ==
    /\ res.placed
    /\ IsBuy(res.direction)
    /\ res.queries = <<"balance">>
    /\ res.balance < 0

\* C38: a BUY whose balance query fails creates and posts no order, and no
\* exception reaches the caller of place_order or of execute_trade.
C38_FailedBalanceQueryStopsBuy ==
    BuyWithoutBalanceInfo =>
        /\ res.outcome = "no_balance_info"
        /\ ~res.posted
        /\ ~res.raised
        /\ ~res.escaped

\* place_order was awaited directly with a BUY and the query failed
C38_Witness ==
    /\ BuyWithoutBalanceInfo
    /\ res.origin = "place_order"
    /\ res.outcome = "no_balance_info"

====
